---- MODULE Spec2Model ----
(***************************************************************************)
(* Model of two units of infinitechess.org:                                *)
(*                                                                         *)
(*   src/client/scripts/esm/game/rendering/legalmoveshapes.js              *)
(*       getDataLegalMoveDot, getDataCornerTriangles,                      *)
(*       getDataLegalMoveCornerTris                                        *)
(*   src/server/database/deleteUnverifiedMembers.js                        *)
(*       removeOldUnverifiedMembers, startPeriodicDeleteUnverifiedMembers  *)
(*                                                                         *)
(* Number representation.  Positions, colour channels and the board's      *)
(* square-centre value are fixed-point numbers in hundredths (0.16 is 16,  *)
(* 0.5 is 50, 1 is 100); every literal of legalmoveshapes.js is a whole    *)
(* number of hundredths, and the code only adds and subtracts them, so the *)
(* arithmetic is exact.  A scale is a numerator over ScaleDen = 56, which  *)
(* makes both thresholds 5/28 and 32/28 representable and makes 28*scale   *)
(* a half-integer for odd numerators, so the ceiling does real work.       *)
(* Times are milliseconds, as Date.now() returns them.                     *)
(***************************************************************************)
EXTENDS Integers, Sequences, FiniteSets, TLC

VARIABLES
    \* ---- legalmoveshapes.js: the caller, the board and the last call ----
    squareCenter,   \* board.js: the value board.gsquareCenter() returns
    coords,         \* the caller's coords array [x, y] (tile integers)
    color,          \* the caller's color array [r, g, b, a] (hundredths)
    scale,          \* the caller's scale, numerator over ScaleDen
    perspectiveOn,  \* the caller's perspective flag
    lastOp,         \* the step taken last
    resolution,     \* getDataLegalMoveDot: final value of `resolution`
    circleArgs,     \* arguments of the last shapes.getDataCircle call
    reads,          \* values board.gsquareCenter() returned in the last call
    buffer,         \* vertex data returned by the last generator call
    first,          \* an earlier call kept for comparison: its arguments and result
    \* ---- deleteUnverifiedMembers.js ----
    now,            \* wall clock, Date.now()
    members,        \* the members table: user_id -> row
    deleted,        \* user_id -> what the deleting run saw, for deleted users
    socketsClosed,  \* user_ids closeAllSocketsOfMember was called for
    started,        \* startPeriodicDeleteUnverifiedMembers has run
    nextRun,        \* time the interval timer fires next
    runs            \* number of runs of removeOldUnverifiedMembers so far

shapeVars == <<squareCenter, coords, color, scale, perspectiveOn, lastOp,
               resolution, circleArgs, reads, buffer, first>>
memberVars == <<now, members, deleted, socketsClosed, started, nextRun, runs>>
vars == <<squareCenter, coords, color, scale, perspectiveOn, lastOp,
          resolution, circleArgs, reads, buffer, first,
          now, members, deleted, socketsClosed, started, nextRun, runs>>

(***************************************************************************)
(* Bounds of the model                                                     *)
(***************************************************************************)
MaxCoord == 1
MaxNegScaleNum == 2
MaxScaleNum == 66

(***************************************************************************)
(* Literals of legalmoveshapes.js, in hundredths                           *)
(***************************************************************************)
radius == 16
resolutionMultiplier == 28
resolutionCap == 32
resolutionMin == 5
opacityOffset == 20
halfSize == 50
triSize == 50
One == 2 * halfSize
ScaleDen == 2 * resolutionMultiplier

Coords == {<<cx, cy>> : cx \in -MaxCoord..MaxCoord, cy \in -MaxCoord..MaxCoord}
Colors == {<<100, 0, 0, 50>>, <<0, 100, 0, 0>>, <<0, 0, 100, 30>>, <<100, 100, 100, 90>>}
ScaleNums == -MaxNegScaleNum..MaxScaleNum
SquareCenters == {0, 50}

NoCall == [op |-> "none"]

(***************************************************************************)
(* Helpers                                                                 *)
(***************************************************************************)
\* Math.ceil(n / d) for d > 0 and any integer n (\div rounds toward -infinity)
Ceil(n, d) == -((-n) \div d)

RECURSIVE Flatten(_)
Flatten(ss) == IF ss = <<>> THEN <<>> ELSE Head(ss) \o Flatten(Tail(ss))

\* board.gsquareCenter(): returns the board's current value
gsquareCenter(board) == board

\* Point k of `res` on the rim of the disc around (x, y): the primitive's
\* trigonometry is replaced by the diamond |dx| + |dy| = rad, which keeps the
\* points distinct and ordered around the centre.
RimPoint(x, y, rad, k, res) ==
    LET kk == k % res
        s  == (4 * kk) \div res
        d  == (rad * (4 * kk - s * res)) \div res
    IN  CASE s = 0 -> <<x + rad - d, y + d>>
          [] s = 1 -> <<x - d, y + rad - d>>
          [] s = 2 -> <<x - (rad - d), y - d>>
          [] OTHER -> <<x + d, y - (rad - d)>>

\* shapes.getDataCircle: a fan of `res` triangles, one per slice, every
\* vertex carrying the colour it was given
getDataCircle(x, y, rad, res, r, g, b, a) ==
    Flatten([i \in 1..res |->
        LET p == RimPoint(x, y, rad, i - 1, res)
            q == RimPoint(x, y, rad, i, res)
        IN  <<x, y, r, g, b, a,
              p[1], p[2], r, g, b, a,
              q[1], q[2], r, g, b, a>>])

(***************************************************************************)
(* getDataLegalMoveDot                                                     *)
(***************************************************************************)
Resolution_NoFloor(sc, persp) ==
    LET r0 == IF persp THEN resolutionCap ELSE Ceil(resolutionMultiplier * sc, ScaleDen)
    IN  IF r0 > resolutionCap THEN resolutionCap ELSE r0

Resolution_SwappedTernary(sc, persp) ==
    LET r0 == IF persp THEN Ceil(resolutionMultiplier * sc, ScaleDen) ELSE resolutionCap
        r1 == IF r0 > resolutionCap THEN resolutionCap ELSE r0
    IN  IF r1 < resolutionMin THEN resolutionMin ELSE r1

\* lines 17-22: the resolution handed to the circle primitive
Resolution(sc, persp) ==
    LET r0 == IF persp THEN resolutionCap ELSE Ceil(resolutionMultiplier * sc, ScaleDen)
        r1 == IF r0 > resolutionCap THEN resolutionCap ELSE r0
    IN  IF r1 < resolutionMin THEN resolutionMin ELSE r1

AddOpacity_Clamped(col) ==
    <<col[1], col[2], col[3], IF col[4] + opacityOffset > One THEN One ELSE col[4] + opacityOffset>>

\* let [r, g, b, a] = color; a += opacityOffset;   the locals r, g, b, a
AddOpacity(col) == <<col[1], col[2], col[3], col[4] + opacityOffset>>

getDataLegalMoveDot_CapPassed(crd, col, sc, persp, board) ==
    LET res == Resolution(sc, persp)
        c   == AddOpacity(col)
        rd1 == gsquareCenter(board)
        rd2 == gsquareCenter(board)
        x   == crd[1] * One + (One - rd1) - halfSize
        y   == crd[2] * One + (One - rd2) - halfSize
    IN  [buffer     |-> getDataCircle(x, y, radius, resolutionCap, c[1], c[2], c[3], c[4]),
         circleArgs |-> [op |-> "getDataCircle", x |-> x, y |-> y, radius |-> radius,
                         resolution |-> resolutionCap, color |-> c],
         resolution |-> res,
         reads      |-> <<rd1, rd2>>,
         coords     |-> crd,
         color      |-> col]

getDataLegalMoveDot_WritesBack(crd, col, sc, persp, board) ==
    LET res == Resolution(sc, persp)
        c   == AddOpacity(col)
        rd1 == gsquareCenter(board)
        rd2 == gsquareCenter(board)
        x   == crd[1] * One + (One - rd1) - halfSize
        y   == crd[2] * One + (One - rd2) - halfSize
    IN  [buffer     |-> getDataCircle(x, y, radius, res, c[1], c[2], c[3], c[4]),
         circleArgs |-> [op |-> "getDataCircle", x |-> x, y |-> y, radius |-> radius,
                         resolution |-> res, color |-> c],
         resolution |-> res,
         reads      |-> <<rd1, rd2>>,
         coords     |-> crd,
         color      |-> c]

\* The whole call.  The result records the returned vertex data, the call made
\* to shapes.getDataCircle, the values board.gsquareCenter() returned (line 30
\* and line 31 each call it), and the caller's two arrays as the call leaves
\* them (the destructuring on line 27 copies, so they are left as passed).
getDataLegalMoveDot(crd, col, sc, persp, board) ==
    LET res == Resolution(sc, persp)
        c   == AddOpacity(col)
        rd1 == gsquareCenter(board)
        rd2 == gsquareCenter(board)
        x   == crd[1] * One + (One - rd1) - halfSize
        y   == crd[2] * One + (One - rd2) - halfSize
    IN  [buffer     |-> getDataCircle(x, y, radius, res, c[1], c[2], c[3], c[4]),
         circleArgs |-> [op |-> "getDataCircle", x |-> x, y |-> y, radius |-> radius,
                         resolution |-> res, color |-> c],
         resolution |-> res,
         reads      |-> <<rd1, rd2>>,
         coords     |-> crd,
         color      |-> col]

(***************************************************************************)
(* getDataCornerTriangles, getDataLegalMoveCornerTris                      *)
(***************************************************************************)
\* addTriangle: three vertices of six floats each
addTriangle(x1, y1, x2, y2, x3, y3, c) ==
    <<x1, y1, c[1], c[2], c[3], c[4],
      x2, y2, c[1], c[2], c[3], c[4],
      x3, y3, c[1], c[2], c[3], c[4]>>

getDataCornerTriangles_ThreeCorners(centerX, centerY, tri, c) ==
    LET topLeft      == <<centerX - halfSize, centerY + halfSize>>
        topRight     == <<centerX + halfSize, centerY + halfSize>>
        bottomLeft   == <<centerX - halfSize, centerY - halfSize>>
        cornerOffset == tri \div 2
    IN  addTriangle(topLeft[1], topLeft[2],
                    topLeft[1] + cornerOffset, topLeft[2],
                    topLeft[1], topLeft[2] - cornerOffset, c)
        \o addTriangle(topRight[1], topRight[2],
                       topRight[1] - cornerOffset, topRight[2],
                       topRight[1], topRight[2] - cornerOffset, c)
        \o addTriangle(bottomLeft[1], bottomLeft[2],
                       bottomLeft[1] + cornerOffset, bottomLeft[2],
                       bottomLeft[1], bottomLeft[2] + cornerOffset, c)

getDataCornerTriangles_BottomLeftOutward(centerX, centerY, tri, c) ==
    LET topLeft      == <<centerX - halfSize, centerY + halfSize>>
        topRight     == <<centerX + halfSize, centerY + halfSize>>
        bottomLeft   == <<centerX - halfSize, centerY - halfSize>>
        bottomRight  == <<centerX + halfSize, centerY - halfSize>>
        cornerOffset == tri \div 2
    IN  addTriangle(topLeft[1], topLeft[2],
                    topLeft[1] + cornerOffset, topLeft[2],
                    topLeft[1], topLeft[2] - cornerOffset, c)
        \o addTriangle(topRight[1], topRight[2],
                       topRight[1] - cornerOffset, topRight[2],
                       topRight[1], topRight[2] - cornerOffset, c)
        \o addTriangle(bottomLeft[1], bottomLeft[2],
                       bottomLeft[1] + cornerOffset, bottomLeft[2],
                       bottomLeft[1], bottomLeft[2] - cornerOffset, c)
        \o addTriangle(bottomRight[1], bottomRight[2],
                       bottomRight[1] - cornerOffset, bottomRight[2],
                       bottomRight[1], bottomRight[2] + cornerOffset, c)

\* lines 46-98, the four addTriangle calls in the order of the source
getDataCornerTriangles(centerX, centerY, tri, c) ==
    LET topLeft      == <<centerX - halfSize, centerY + halfSize>>
        topRight     == <<centerX + halfSize, centerY + halfSize>>
        bottomLeft   == <<centerX - halfSize, centerY - halfSize>>
        bottomRight  == <<centerX + halfSize, centerY - halfSize>>
        cornerOffset == tri \div 2
    IN  addTriangle(topLeft[1], topLeft[2],
                    topLeft[1] + cornerOffset, topLeft[2],
                    topLeft[1], topLeft[2] - cornerOffset, c)
        \o addTriangle(topRight[1], topRight[2],
                       topRight[1] - cornerOffset, topRight[2],
                       topRight[1], topRight[2] - cornerOffset, c)
        \o addTriangle(bottomLeft[1], bottomLeft[2],
                       bottomLeft[1] + cornerOffset, bottomLeft[2],
                       bottomLeft[1], bottomLeft[2] + cornerOffset, c)
        \o addTriangle(bottomRight[1], bottomRight[2],
                       bottomRight[1] - cornerOffset, bottomRight[2],
                       bottomRight[1], bottomRight[2] + cornerOffset, c)

getDataLegalMoveCornerTris_YFromX(crd, col, board) ==
    LET c   == AddOpacity(col)
        rd1 == gsquareCenter(board)
        rd2 == gsquareCenter(board)
        x   == crd[1] * One + (One - rd1) - halfSize
        y   == crd[1] * One + (One - rd2) - halfSize
    IN  [buffer |-> getDataCornerTriangles(x, y, triSize, c),
         reads  |-> <<rd1, rd2>>,
         coords |-> crd,
         color  |-> col]

\* lines 106-118; the result has the shape of getDataLegalMoveDot's
getDataLegalMoveCornerTris(crd, col, board) ==
    LET c   == AddOpacity(col)
        rd1 == gsquareCenter(board)
        rd2 == gsquareCenter(board)
        x   == crd[1] * One + (One - rd1) - halfSize
        y   == crd[2] * One + (One - rd2) - halfSize
    IN  [buffer |-> getDataCornerTriangles(x, y, triSize, c),
         reads  |-> <<rd1, rd2>>,
         coords |-> crd,
         color  |-> col]

(***************************************************************************)
(* The renderer calling the generators                                     *)
(***************************************************************************)
\* The arguments and board value a call is made with
CallKey(op) ==
    IF op = "dot"
    THEN [op |-> op, coords |-> coords, color |-> color, scale |-> scale,
          perspectiveOn |-> perspectiveOn, squareCenter |-> squareCenter]
    ELSE [op |-> op, coords |-> coords, color |-> color, squareCenter |-> squareCenter]

\* Bookkeeping of the call kept for comparison: keep this call if asked to and
\* none is kept yet; note on the kept call that a different call came after it
Remember(op, rec, buf) ==
    IF first = NoCall
    THEN IF rec THEN [op |-> "kept", key |-> CallKey(op), buffer |-> buf, others |-> FALSE]
                ELSE first
    ELSE IF first.key = CallKey(op) THEN first ELSE [first EXCEPT !.others = TRUE]

\* The renderer calls getDataLegalMoveDot with its arrays, scale and flag
DotCall(rec) ==
    LET out == getDataLegalMoveDot(coords, color, scale, perspectiveOn, squareCenter)
    IN  /\ buffer' = out.buffer
        /\ circleArgs' = out.circleArgs
        /\ resolution' = out.resolution
        /\ reads' = out.reads
        /\ coords' = out.coords
        /\ color' = out.color
        /\ lastOp' = "dot"
        /\ first' = Remember("dot", rec, out.buffer)
        /\ UNCHANGED <<squareCenter, scale, perspectiveOn>>
        /\ UNCHANGED memberVars

\* The renderer calls getDataLegalMoveCornerTris with its arrays; this call
\* makes no getDataCircle call and has no `resolution`
TrisCall(rec) ==
    LET out == getDataLegalMoveCornerTris(coords, color, squareCenter)
    IN  /\ buffer' = out.buffer
        /\ circleArgs' = NoCall
        /\ resolution' = 0
        /\ reads' = out.reads
        /\ coords' = out.coords
        /\ color' = out.color
        /\ lastOp' = "tris"
        /\ first' = Remember("tris", rec, out.buffer)
        /\ UNCHANGED <<squareCenter, scale, perspectiveOn>>
        /\ UNCHANGED memberVars

\* Between calls the renderer moves to another tile, colour, zoom or mode
HistCoords == {<<0, 0>>, <<1, -1>>}
HistColors == {<<100, 0, 0, 50>>, <<100, 100, 100, 90>>}
HistScaleNums == {11}

CallerSetArgs ==
    /\ \E c \in HistCoords, col \in HistColors, sc \in HistScaleNums, p \in BOOLEAN :
          /\ <<c, col, sc, p>> # <<coords, color, scale, perspectiveOn>>
          /\ coords' = c
          /\ color' = col
          /\ scale' = sc
          /\ perspectiveOn' = p
    /\ lastOp' = "setArgs"
    /\ UNCHANGED <<squareCenter, resolution, circleArgs, reads, buffer, first>>
    /\ UNCHANGED memberVars

\* Between calls the board changes its square-centre value
SetSquareCenter ==
    /\ \E s \in SquareCenters : s # squareCenter /\ squareCenter' = s
    /\ lastOp' = "setSquareCenter"
    /\ UNCHANGED <<coords, color, scale, perspectiveOn, resolution, circleArgs,
                   reads, buffer, first>>
    /\ UNCHANGED memberVars

MembersIdle ==
    /\ now = 0
    /\ members = << >>
    /\ deleted = << >>
    /\ socketsClosed = {}
    /\ started = FALSE
    /\ nextRun = 0
    /\ runs = 0

NoCallYet ==
    /\ lastOp = "none"
    /\ resolution = 0
    /\ circleArgs = NoCall
    /\ reads = << >>
    /\ buffer = << >>
    /\ first = NoCall

\* One call site: the inputs are drawn once, the generators are applied to them
Init ==
    /\ squareCenter \in SquareCenters
    /\ coords \in Coords
    /\ color \in Colors
    /\ scale \in ScaleNums
    /\ perspectiveOn \in BOOLEAN
    /\ NoCallYet
    /\ MembersIdle

Next ==
    \/ DotCall(FALSE)
    \/ TrisCall(FALSE)

Spec == Init /\ [][Next]_vars

\* A rendering session: calls in any order, arguments and board changing between
InitHistory ==
    /\ squareCenter = 50
    /\ coords = <<0, 0>>
    /\ color = <<100, 0, 0, 50>>
    /\ scale = 11
    /\ perspectiveOn = FALSE
    /\ NoCallYet
    /\ MembersIdle

NextHistory ==
    \/ \E rec \in BOOLEAN : DotCall(rec)
    \/ \E rec \in BOOLEAN : TrisCall(rec)
    \/ CallerSetArgs
    \/ SetSquareCenter

SpecHistory == InitHistory /\ [][NextHistory]_vars

(***************************************************************************)
(* deleteUnverifiedMembers.js                                              *)
(***************************************************************************)
MaxUsers == 2
MaxDays == 3
MaxSecs == 1

millisecondsInADay == 1000 * 60 * 60 * 24
\* config.js; "for more than 3 days" (line 17), "once a day" (line 58)
maxExistenceTimeForUnverifiedAccountMillis == 3 * millisecondsInADay
intervalForRemovalOfOldUnverifiedAccountsMillis == millisecondsInADay

UserIds == 1..MaxUsers
Null == "NULL"
Unverified == "{\"verified\":false}"
VerifiedNotNotified == "{\"verified\":true,\"notified\":false}"

\* JSON.parse of the verification column
JSONparse(text) ==
    IF text = Unverified THEN [verified |-> FALSE]
    ELSE [verified |-> TRUE, notified |-> FALSE]

\* timeutil.sqliteToTimestamp: SQLite keeps `joined` as UTC text with a
\* resolution of one second (modelled as a count of seconds); the result is
\* in milliseconds
sqliteToTimestamp(joined) == joined * 1000

\* memberManager.deleteUser: the row leaves the members table
deleteUser(tbl, user_id) == [u \in (DOMAIN tbl) \ {user_id} |-> tbl[u]]

\* db.all(notNullVerificationMembersQuery): the rows whose verification is
\* not NULL, in user_id order
RECURSIVE RowsFrom(_, _)
RowsFrom(tbl, u) ==
    IF u > MaxUsers + 1 THEN << >>
    ELSE IF u \in DOMAIN tbl /\ tbl[u].verification # Null
         THEN <<[user_id |-> u, joined |-> tbl[u].joined,
                 verification |-> tbl[u].verification]>> \o RowsFrom(tbl, u + 1)
         ELSE RowsFrom(tbl, u + 1)

notNullVerificationMembers(tbl) == RowsFrom(tbl, 1)

\* The for loop of lines 31-47 over the rows still to visit; st is the
\* database and socket state so far
RECURSIVE Loop_AtThreshold(_, _, _, _)
Loop_AtThreshold(rows, st, t, run) ==
    IF rows = << >> THEN st
    ELSE LET memberRow == Head(rows)
             verification == JSONparse(memberRow.verification)
             timeSinceJoined == t - sqliteToTimestamp(memberRow.joined)
         IN  IF verification.verified
             THEN Loop_AtThreshold(Tail(rows), st, t, run)
             ELSE IF timeSinceJoined >= maxExistenceTimeForUnverifiedAccountMillis
                  THEN Loop_AtThreshold(Tail(rows),
                            [members |-> deleteUser(st.members, memberRow.user_id),
                             deleted |-> [u \in DOMAIN st.deleted \cup {memberRow.user_id} |->
                                            IF u = memberRow.user_id
                                            THEN [row |-> memberRow, now |-> t, run |-> run]
                                            ELSE st.deleted[u]],
                             socketsClosed |-> st.socketsClosed \cup {<<memberRow.user_id, run>>}],
                            t, run)
                  ELSE Loop_AtThreshold(Tail(rows), st, t, run)

RECURSIVE Loop(_, _, _, _)
Loop(rows, st, t, run) ==
    IF rows = << >> THEN st
    ELSE LET memberRow == Head(rows)
             verification == JSONparse(memberRow.verification)
             timeSinceJoined == t - sqliteToTimestamp(memberRow.joined)
         IN  IF verification.verified
             THEN Loop(Tail(rows), st, t, run)
             ELSE IF timeSinceJoined > maxExistenceTimeForUnverifiedAccountMillis
                  THEN Loop(Tail(rows),
                            [members |-> deleteUser(st.members, memberRow.user_id),
                             deleted |-> [u \in DOMAIN st.deleted \cup {memberRow.user_id} |->
                                            IF u = memberRow.user_id
                                            THEN [row |-> memberRow, now |-> t, run |-> run]
                                            ELSE st.deleted[u]],
                             socketsClosed |-> st.socketsClosed \cup {<<memberRow.user_id, run>>}],
                            t, run)
                  ELSE Loop(Tail(rows), st, t, run)

\* One run: the query, then the loop.  Nothing in the modelled run throws, so
\* the catch of lines 49-52 is not entered.
removeOldUnverifiedMembers ==
    LET st == Loop(notNullVerificationMembers(members),
                   [members |-> members, deleted |-> deleted,
                    socketsClosed |-> socketsClosed],
                   now, runs + 1)
    IN  /\ members' = st.members
        /\ deleted' = st.deleted
        /\ socketsClosed' = st.socketsClosed
        /\ runs' = runs + 1

\* startPeriodicDeleteUnverifiedMembers: the first run, then the timer is armed
startPeriodicDeleteUnverifiedMembers ==
    /\ ~started
    /\ removeOldUnverifiedMembers
    /\ started' = TRUE
    /\ nextRun' = now + intervalForRemovalOfOldUnverifiedAccountsMillis
    /\ UNCHANGED now
    /\ UNCHANGED shapeVars

\* The setInterval callback: a run once the interval has elapsed
IntervalFires ==
    /\ started
    /\ now >= nextRun
    /\ removeOldUnverifiedMembers
    /\ nextRun' = nextRun + intervalForRemovalOfOldUnverifiedAccountsMillis
    /\ UNCHANGED <<now, started>>
    /\ UNCHANGED shapeVars

\* CURRENT_TIMESTAMP of the members table: the time in whole seconds
sqliteNow(t) == t \div 1000

\* A new account is created: unverified, joined now
Join ==
    /\ \E u \in UserIds :
          /\ u \notin DOMAIN members
          /\ u \notin DOMAIN deleted
          /\ \A v \in UserIds : v < u => (v \in DOMAIN members \/ v \in DOMAIN deleted)
          /\ members' = [w \in DOMAIN members \cup {u} |->
                            IF w = u
                            THEN [joined |-> sqliteNow(now),
                                  verification |-> Unverified]
                            ELSE members[w]]
    /\ UNCHANGED <<now, deleted, socketsClosed, started, nextRun, runs>>
    /\ UNCHANGED shapeVars

\* The account is verified; the member has not been told yet
Verify ==
    /\ \E u \in DOMAIN members :
          /\ members[u].verification = Unverified
          /\ members' = [members EXCEPT ![u].verification = VerifiedNotNotified]
    /\ UNCHANGED <<now, deleted, socketsClosed, started, nextRun, runs>>
    /\ UNCHANGED shapeVars

\* The member is told of the verification: the column becomes NULL
Notify ==
    /\ \E u \in DOMAIN members :
          /\ members[u].verification = VerifiedNotNotified
          /\ members' = [members EXCEPT ![u].verification = Null]
    /\ UNCHANGED <<now, deleted, socketsClosed, started, nextRun, runs>>
    /\ UNCHANGED shapeVars

\* Time passes, by a second or by a day
Tick ==
    /\ \/ /\ sqliteNow(now % millisecondsInADay) < MaxSecs
          /\ now' = now + 1000
       \/ /\ now \div millisecondsInADay < MaxDays
          /\ now' = now + millisecondsInADay
    /\ UNCHANGED <<members, deleted, socketsClosed, started, nextRun, runs>>
    /\ UNCHANGED shapeVars

InitMembers ==
    /\ squareCenter = 50
    /\ coords = <<0, 0>>
    /\ color = <<100, 0, 0, 50>>
    /\ scale = 11
    /\ perspectiveOn = FALSE
    /\ NoCallYet
    /\ MembersIdle

NextMembers ==
    \/ startPeriodicDeleteUnverifiedMembers
    \/ IntervalFires
    \/ Join
    \/ Verify
    \/ Notify
    \/ Tick

SpecMembers == InitMembers /\ [][NextMembers]_vars

(***************************************************************************)
(* Properties                                                              *)
(***************************************************************************)
IsCall == lastOp \in {"dot", "tris"}

\* Vertex k (1..) of the returned buffer: its position and its colour
VertexPos(k) == <<buffer[6 * (k - 1) + 1], buffer[6 * (k - 1) + 2]>>
VertexColor(k) == <<buffer[6 * (k - 1) + 3], buffer[6 * (k - 1) + 4],
                    buffer[6 * (k - 1) + 5], buffer[6 * (k - 1) + 6]>>

\* C1: with perspectiveOn false the resolution is min(32, max(5, ceil(28 * scale))):
\* 32 from scale 32/28 up, 5 up to scale 5/28 (zero and negative included), the
\* ceiling in between; it lies in 5..32 and no smaller scale gives a larger one.
C1_ResolutionClamped ==
    (lastOp = "dot" /\ ~perspectiveOn) =>
        /\ resolution \in 5..32
        /\ (28 * scale >= 32 * 56) => resolution = 32
        /\ (28 * scale <= 5 * 56) => resolution = 5
        /\ (5 * 56 < 28 * scale /\ 28 * scale < 32 * 56) =>
              /\ resolution * 56 >= 28 * scale
              /\ (resolution - 1) * 56 < 28 * scale
        /\ \A s2 \in ScaleNums : s2 <= scale => Resolution(s2, FALSE) <= resolution

C1_Witness ==
    /\ lastOp = "dot"
    /\ ~perspectiveOn
    /\ scale = 11
    /\ resolution = 6

\* C2: with perspectiveOn true the resolution passed to the circle primitive is
\* 32 whatever the scale, so the buffer has 32 triangles.
C2_PerspectiveForcesCap ==
    (lastOp = "dot" /\ perspectiveOn) =>
        /\ circleArgs.resolution = 32
        /\ Len(buffer) = 32 * 18
        /\ \A s2 \in ScaleNums : Resolution(s2, TRUE) = circleArgs.resolution

C2_Witness ==
    /\ lastOp = "dot"
    /\ perspectiveOn
    /\ scale <= 0
    /\ circleArgs.resolution = 32

\* C3: getDataLegalMoveCornerTris returns exactly 72 floats for every tile,
\* colour and board value.
C3_CornerTrisLength == (lastOp = "tris") => Len(buffer) = 72

C3_Witness ==
    /\ lastOp = "tris"
    /\ coords = <<-1, 1>>
    /\ squareCenter = 0
    /\ Len(buffer) = 72

\* C4: getDataLegalMoveDot returns the circle primitive's result for the selected
\* resolution unchanged: resolution * 18 floats, a multiple of 18 in 90..576.
C4_DotLength ==
    (lastOp = "dot") =>
        /\ circleArgs.resolution = resolution
        /\ Len(buffer) = resolution * 18
        /\ Len(buffer) % 18 = 0
        /\ Len(buffer) >= 90
        /\ Len(buffer) <= 576
        /\ buffer = getDataCircle(circleArgs.x, circleArgs.y, circleArgs.radius,
                                  circleArgs.resolution, circleArgs.color[1],
                                  circleArgs.color[2], circleArgs.color[3],
                                  circleArgs.color[4])

C4_Witness ==
    /\ lastOp = "dot"
    /\ ~perspectiveOn
    /\ scale = 56
    /\ Len(buffer) = 504

\* C5: both generators use alpha + 0.2, unclamped, and r, g, b as given: every
\* vertex of the corner-triangle buffer carries (r, g, b, a + 0.2) and the dot
\* generator passes (r, g, b, a + 0.2) to the circle primitive.
C5_AlphaOffsetUnclamped ==
    /\ (lastOp = "dot") =>
          circleArgs.color = <<color[1], color[2], color[3], color[4] + 20>>
    /\ (lastOp = "tris") =>
          \A k \in 1..12 : VertexColor(k) = <<color[1], color[2], color[3], color[4] + 20>>

C5_Witness ==
    /\ lastOp = "tris"
    /\ color[4] = 90
    /\ VertexColor(12)[4] = 110

\* Twice the signed area of triangle t (1..4) of the buffer, vertices in
\* emission order
SignedArea2(t) ==
    LET v1 == VertexPos(3 * t - 2)
        v2 == VertexPos(3 * t - 1)
        v3 == VertexPos(3 * t)
    IN  (v2[1] - v1[1]) * (v3[2] - v1[2]) - (v3[1] - v1[1]) * (v2[2] - v1[2])

\* C6: the four corner triangles all have the same winding order: their signed
\* areas, vertices in emission order, all have the same sign.
C6_SameWinding ==
    (lastOp = "tris") =>
        \A t1, t2 \in 1..4 : SignedArea2(t1) * SignedArea2(t2) > 0

C8_CornerGeometry ==
    (lastOp = "tris") =>
        LET cx == coords[1] * 100 + (100 - squareCenter) - 50
            cy == coords[2] * 100 + (100 - squareCenter) - 50
            sx == <<-1, 1, -1, 1>>
            sy == <<1, 1, -1, -1>>
        IN  /\ \A t \in 1..4 :
                  /\ VertexPos(3 * t - 2) = <<cx + 50 * sx[t], cy + 50 * sy[t]>>
                  /\ VertexPos(3 * t - 1) = <<cx + 50 * sx[t] - 25 * sx[t], cy + 50 * sy[t]>>
                  /\ VertexPos(3 * t) = <<cx + 50 * sx[t], cy + 50 * sy[t] - 25 * sy[t]>>
            /\ \A k \in 1..12 :
                  /\ VertexPos(k)[1] >= cx - 50 /\ VertexPos(k)[1] <= cx + 50
                  /\ VertexPos(k)[2] >= cy - 50 /\ VertexPos(k)[2] <= cy + 50

C8_Witness ==
    /\ lastOp = "tris"
    /\ coords = <<1, -1>>
    /\ squareCenter = 0
    /\ VertexPos(1) = <<100, 0>>
    /\ VertexPos(12) = <<200, -75>>

Spared(u, t) ==
    \/ members[u].verification = Null
    \/ members[u].verification = VerifiedNotNotified
    \/ t - members[u].joined * 1000 <= 3 * millisecondsInADay

\* C10: a member is deleted only by a run that found its verification not NULL,
\* its verified flag false and its age strictly above the maximum; a member with
\* NULL verification, verified, or no older than the maximum stays; each
\* deletion comes with the closing of the member's sockets in the same run.
C10_OnlyOldUnverifiedDeleted ==
    /\ [](\A u \in DOMAIN deleted :
              /\ deleted[u].row.verification = Unverified
              /\ deleted[u].now - deleted[u].row.joined * 1000 > 3 * millisecondsInADay
              /\ <<u, deleted[u].run>> \in socketsClosed
              /\ deleted[u].run <= runs
              /\ u \notin DOMAIN members)
    /\ [][/\ \A u \in DOMAIN members : Spared(u, now) => u \in DOMAIN members'
          /\ \A u \in DOMAIN members : u \notin DOMAIN members' => u \in DOMAIN deleted'
          /\ \A u \in DOMAIN deleted' \ DOMAIN deleted : <<u, runs'>> \in socketsClosed'
         ]_vars

C10_Witness ==
    /\ 1 \in DOMAIN deleted
    /\ 2 \in DOMAIN members
    /\ members[2].verification = VerifiedNotNotified
    /\ now - members[2].joined * 1000 > 3 * millisecondsInADay
    /\ runs >= 2

====
